---- MODULE Spec2Model ----
(***************************************************************************)
(* The four views of api/views.py (health_check, calculate, hello_async,   *)
(* process_data) served by one ASGI event loop.  A request occupies a      *)
(* slot; the two coroutine views give the loop back at their await.        *)
(*                                                                         *)
(* Numbers: a Python float is written as an exact fraction [n, d] in       *)
(* lowest terms.  Within the bounds below every operand is an integer of   *)
(* at most three digits, so +, - and * are exact in binary64 and distinct  *)
(* quotients round to distinct doubles.                                    *)
(***************************************************************************)
EXTENDS Integers, Sequences, FiniteSets, TLC

\* ---------------------------------------------------------------- bounds
MaxReq  == 2    \* request slots served at the same time
MaxNum  == 2    \* JSON integers range over -MaxNum..MaxNum
MaxStr  == 2    \* longest string given for num1 / num2
MaxBody == 2    \* longest raw body sent to process_data
MaxClock == 1   \* wall-clock readings 0..MaxClock

Req == 1..MaxReq

\* ------------------------------------------------------------ JSON values
\* A field of request.data: a JSON value, or Absent when the key is missing.
Absent     == [t |-> "absent"]
JNull      == [t |-> "null"]
JArr(e)    == [t |-> "list", elems |-> e]
JList      == JArr(<<>>)
JInt(n)    == [t |-> "int", v |-> n]
\* An integer literal whose magnitude is beyond the binary64 range (>= 2^1024).
JHuge      == [t |-> "hugeint"]
JBool(b)   == [t |-> "bool", v |-> b]
JStr(s)    == [t |-> "str", s |-> s]

StrChars == {"1", "-", " ", "a"}

RECURSIVE SeqsUpTo(_, _)
SeqsUpTo(S, n) ==
    IF n = 0 THEN {<<>>}
    ELSE LET shorter == SeqsUpTo(S, n - 1)
         IN  shorter \cup {Append(s, c) : s \in {x \in shorter : Len(x) = n - 1}, c \in S}

NumStrings == SeqsUpTo(StrChars, MaxStr)

NumValues ==
    {JInt(n) : n \in -MaxNum..MaxNum} \cup {JStr(s) : s \in NumStrings}
        \cup {JNull, JList, JHuge, JBool(TRUE), JBool(FALSE)}

OpNames == {"add", "subtract", "multiply", "divide"}

OpValues ==
    {JStr(s) : s \in OpNames \cup {"Add", "pow", ""}} \cup {JNull, JInt(1)}

\* request.data as the view sees it: a mapping, or a JSON value that is none.
DictBody(n1, n2, op) == [t |-> "dict", num1 |-> n1, num2 |-> n2, operation |-> op]

DictBodies ==
    {DictBody(n1, n2, op) : n1 \in NumValues \cup {Absent},
                            n2 \in NumValues \cup {Absent},
                            op \in OpValues \cup {Absent}}

NonDictBodies == {JList, JStr(<<"a">>), JInt(1)}

Bodies == DictBodies \cup NonDictBodies

\* ----------------------------------------------------------------- floats
Abs(x) == IF x < 0 THEN -x ELSE x

RECURSIVE GCD(_, _)
GCD(a, b) == IF b = 0 THEN a ELSE GCD(b, a % b)

\* The float n/d, in lowest terms with a positive denominator.
Frac(n, d) ==
    LET g == GCD(Abs(n), Abs(d))
        s == IF d < 0 THEN -1 ELSE 1
    IN  [n |-> s * (n \div g), d |-> s * (d \div g)]

Float(n) == [n |-> n, d |-> 1]

FAdd(x, y) == Frac(x.n * y.d + y.n * x.d, x.d * y.d)
FSub(x, y) == Frac(x.n * y.d - y.n * x.d, x.d * y.d)
FMul(x, y) == Frac(x.n * y.n, x.d * y.d)
\* x / y for y # 0; float division by zero raises ZeroDivisionError.
FDiv(x, y) == Frac(x.n * y.d, x.d * y.n)

\* The result of an expression: a value, or the exception it raised.
Ok(v)      == [exc |-> "none", val |-> v]
Raised(e)  == [exc |-> e, val |-> Float(0)]

IsSpace(c) == c = " "
IsDigit(c) == c = "1"

RECURSIVE LStrip(_)
LStrip(s) == IF s # <<>> /\ IsSpace(Head(s)) THEN LStrip(Tail(s)) ELSE s

RECURSIVE RStrip(_)
RStrip(s) ==
    IF s # <<>> /\ IsSpace(s[Len(s)]) THEN RStrip(SubSeq(s, 1, Len(s) - 1)) ELSE s

\* The value of a run of decimal digits.
RECURSIVE Digits(_)
Digits(s) == IF s = <<>> THEN 0 ELSE 10 * Digits(SubSeq(s, 1, Len(s) - 1)) + 1

\* float(str): surrounding whitespace is dropped, then an optional sign and
\* at least one digit; anything else raises ValueError.
FloatOfStr(s) ==
    LET body   == RStrip(LStrip(s))
        neg    == body # <<>> /\ Head(body) = "-"
        digits == IF neg THEN Tail(body) ELSE body
    IN  IF digits # <<>> /\ \A i \in 1..Len(digits) : IsDigit(digits[i])
        THEN Ok(Float(IF neg THEN -Digits(digits) ELSE Digits(digits)))
        ELSE Raised("ValueError")

\* float(x) for a value taken from request.data.
FloatOf(x) ==
    CASE x.t = "int"     -> Ok(Float(x.v))
      [] x.t = "bool"    -> Ok(Float(IF x.v THEN 1 ELSE 0))
      [] x.t = "str"     -> FloatOfStr(x.s)
      [] x.t = "hugeint" -> Raised("OverflowError")
      [] OTHER           -> Raised("TypeError")

\* -------------------------------------------------------------- responses
HTTP_200_OK             == 200
HTTP_400_BAD_REQUEST    == 400
HTTP_405_NOT_ALLOWED    == 405

DivideByZeroMsg   == "Cannot divide by zero"
InvalidOpMsg      == "Invalid operation. Use: add, subtract, multiply, or divide"
InvalidInputMsg   == "Invalid input. Please provide valid numbers."

NoResponse          == [kind |-> "none"]
Response(st, body)  == [kind |-> "response", status |-> st, body |-> body]
\* An exception that left the view: the host framework answers for it.
Fault(e)            == [kind |-> "fault", exc |-> e]
\* The status argument forgotten: Response defaults to 200.
ErrorResponseOk(msg) == Response(HTTP_200_OK, [error |-> msg])
ErrorResponse(msg)  == Response(HTTP_400_BAD_REQUEST, [error |-> msg])
NotAllowed(allowed) == Response(HTTP_405_NOT_ALLOWED, [allow |-> allowed])

\* What running a piece of a view gives: its outcome and the statements run.
Ran(out, steps) == [out |-> out, steps |-> steps]

\* -------------------------------------------------------------- calculate
\* dict.get(key) without the default: a missing key gives None.
GetNone(d, key, default) == IF d[key] = Absent THEN JNull ELSE d[key]

\* dict.get(key, default)
Get(d, key, default) == IF d[key] = Absent THEN default ELSE d[key]

\* num1 / num2, as Python evaluates it.
TrueDiv(x, y) == IF y.n = 0 THEN Raised("ZeroDivisionError") ELSE Ok(FDiv(x, y))

CalculationResponse(num1, num2, operation, result) ==
    Response(HTTP_200_OK,
             [num1 |-> num1, num2 |-> num2, operation |-> operation, result |-> result])

\* The divide branch without its zero test.
DivideBranchUnchecked(num1, num2, operation, steps) ==
    LET q == TrueDiv(num1, num2)
    IN  IF q.exc # "none"
        THEN Ran(Fault(q.exc), Append(steps, "truediv"))
        ELSE Ran(CalculationResponse(num1, num2, operation, q.val),
                 Append(steps, "truediv"))

\* The divide branch: the zero test, then the division.
DivideBranch(num1, num2, operation, steps) ==
    IF num2 = Float(0)
    THEN Ran(ErrorResponse(DivideByZeroMsg), steps)
    ELSE LET q == TrueDiv(num1, num2)
         IN  IF q.exc # "none"
             THEN Ran(Fault(q.exc), Append(steps, "truediv"))
             ELSE Ran(CalculationResponse(num1, num2, operation, q.val),
                      Append(steps, "truediv"))

\* The three branches that cannot fail.
Add(num1, num2)      == FAdd(num1, num2)
\* The operands of the subtraction exchanged.
SubtractSwapped(num1, num2) == FSub(num2, num1)
Subtract(num1, num2) == FSub(num1, num2)
Multiply(num1, num2) == FMul(num1, num2)

\* The chain matching the operation without regard to case.
DispatchLenient(num1, num2, operation, steps) ==
    CASE operation \in {JStr("add"), JStr("Add")} ->
            Ran(CalculationResponse(num1, num2, operation, Add(num1, num2)), steps)
      [] operation = JStr("subtract") ->
            Ran(CalculationResponse(num1, num2, operation, Subtract(num1, num2)), steps)
      [] operation = JStr("multiply") ->
            Ran(CalculationResponse(num1, num2, operation, Multiply(num1, num2)), steps)
      [] operation = JStr("divide") ->
            DivideBranch(num1, num2, operation, steps)
      [] OTHER ->
            Ran(ErrorResponse(InvalidOpMsg), steps)

\* The if / elif chain on operation.
Dispatch(num1, num2, operation, steps) ==
    CASE operation = JStr("add") ->
            Ran(CalculationResponse(num1, num2, operation, Add(num1, num2)), steps)
      [] operation = JStr("subtract") ->
            Ran(CalculationResponse(num1, num2, operation, Subtract(num1, num2)), steps)
      [] operation = JStr("multiply") ->
            Ran(CalculationResponse(num1, num2, operation, Multiply(num1, num2)), steps)
      [] operation = JStr("divide") ->
            DivideBranch(num1, num2, operation, steps)
      [] OTHER ->
            Ran(ErrorResponse(InvalidOpMsg), steps)

\* The body of the try block.
CalculateTry(data) ==
    IF data.t # "dict"
    THEN Ran(Fault("AttributeError"), <<>>)
    ELSE LET c1 == FloatOf(Get(data, "num1", JInt(0)))
             c2 == FloatOf(Get(data, "num2", JInt(0)))
             operation == Get(data, "operation", JStr("add"))
         IN  IF c1.exc # "none" THEN Ran(Fault(c1.exc), <<"num1">>)
             ELSE IF c2.exc # "none" THEN Ran(Fault(c2.exc), <<"num1", "num2">>)
             ELSE Dispatch(c1.val, c2.val, operation, <<"num1", "num2", "operation">>)

\* The exceptions the except clause names.
Caught == {"ValueError", "TypeError"}

\* calculate(request) for a POST with request.data = data.
CalculateView(data) ==
    LET t == CalculateTry(data)
    IN  IF t.out.kind = "fault" /\ t.out.exc \in Caught
        THEN Ran(ErrorResponse(InvalidInputMsg), Append(t.steps, "except"))
        ELSE t

\* ------------------------------------------------------------ health_check
Clock == 0..MaxClock
Isoformat(t) == [iso |-> t]

HealthResponse(t) ==
    Response(HTTP_200_OK, [status |-> "healthy",
                           message |-> "API is running successfully",
                           timestamp |-> Isoformat(t)])

\* ------------------------------------------------------------- hello_async
HelloResponse ==
    Response(HTTP_200_OK, [message |-> "Hello from Django!",
                           async |-> TRUE, status |-> "success"])

\* ------------------------------------------------------------ process_data
BodyChars == {"1", "[", "]"}
RawBodies == SeqsUpTo(BodyChars, MaxBody)

Parsed(v, next) == [ok |-> TRUE, val |-> v, next |-> next]
NoParse         == [ok |-> FALSE, val |-> JNull, next |-> 0]

\* The end of the run of digits that starts at i.
RECURSIVE DigitsEnd(_, _)
DigitsEnd(s, i) == IF i <= Len(s) /\ IsDigit(s[i]) THEN DigitsEnd(s, i + 1) ELSE i

\* One JSON value read from position i: a number, or an array of at most one
\* value (the alphabet has no comma).
RECURSIVE ParseValue(_, _)
ParseValue(s, i) ==
    IF i > Len(s) THEN NoParse
    ELSE IF IsDigit(s[i])
    THEN LET j == DigitsEnd(s, i)
         IN  Parsed(JInt(Digits(SubSeq(s, i, j - 1))), j)
    ELSE IF s[i] = "["
    THEN IF i + 1 <= Len(s) /\ s[i + 1] = "]"
         THEN Parsed(JArr(<<>>), i + 2)
         ELSE LET p == ParseValue(s, i + 1)
              IN  IF p.ok /\ p.next <= Len(s) /\ s[p.next] = "]"
                  THEN Parsed(JArr(<<p.val>>), p.next + 1)
                  ELSE NoParse
    ELSE NoParse

\* json.loads(request.body): the whole text must be one value.
JsonLoads(s) ==
    LET p == ParseValue(s, 1)
    IN  IF p.ok /\ p.next = Len(s) + 1 THEN Ok(p.val) ELSE Raised("JSONDecodeError")

ProcessResponse(d) ==
    Response(HTTP_200_OK, [received |-> d, processed |-> TRUE])

\* ------------------------------------------------------------ the service
VARIABLES
    req,        \* per slot: the request being served
    pc,         \* per slot: "idle", "sleeping" (at the await), "done", "fault"
    data,       \* per slot: process_data's local variable data
    response,   \* per slot: what the client gets
    steps,      \* per slot: the statements the view has run
    loop        \* the slot whose coroutine holds the event-loop thread, 0 if none

vars == <<req, pc, data, response, steps, loop>>

NoRequest == [path |-> "none", method |-> "none", body |-> Absent]
Request(path, method, body) == [path |-> path, method |-> method, body |-> body]
Raw(s) == [t |-> "raw", s |-> s]

\* The calculate bodies sent while other requests are in flight.
SampleBodies ==
    {DictBody(n1, n2, op) : n1 \in {Absent, JHuge},
                            n2 \in {JInt(1), JStr(<<"a">>)},
                            op \in {JStr("divide"), JStr("pow")}}
        \cup {JList}

Init ==
    /\ req      = [r \in Req |-> NoRequest]
    /\ pc       = [r \in Req |-> "idle"]
    /\ data     = [r \in Req |-> JNull]
    /\ response = [r \in Req |-> NoResponse]
    /\ steps    = [r \in Req |-> <<>>]
    /\ loop     = 0

\* time.sleep(...) in place of the await: the coroutine keeps the thread.
BlockingSleep(r) == r

\* The holder of the event-loop thread while slot r waits in
\* await asyncio.sleep(...): nobody, the coroutine has yielded.
AwaitSleep(r) == 0

\* A view that returns (or raises) without awaiting: the slot ends with out.
Finish(r, q, ran) ==
    /\ req'      = [req EXCEPT ![r] = q]
    /\ pc'       = [pc EXCEPT ![r] = IF ran.out.kind = "fault" THEN "fault" ELSE "done"]
    /\ response' = [response EXCEPT ![r] = ran.out]
    /\ steps'    = [steps EXCEPT ![r] = ran.steps]
    /\ UNCHANGED <<data, loop>>

\* @api_view(['GET']) health_check
HealthCheck(r) ==
    /\ pc[r] = "idle" /\ loop = 0
    /\ \/ \E t \in Clock :
             Finish(r, Request("health", "GET", Absent),
                    Ran(HealthResponse(t), <<"now", "return">>))
       \/ Finish(r, Request("health", "POST", JNull), Ran(NotAllowed({"GET"}), <<>>))

\* @api_view(['POST']) calculate, on a body of the set S
CalculateOn(r, S) ==
    /\ pc[r] = "idle" /\ loop = 0
    /\ \/ \E b \in S : Finish(r, Request("calculate", "POST", b), CalculateView(b))
       \/ Finish(r, Request("calculate", "GET", Absent), Ran(NotAllowed({"POST"}), <<>>))

Calculate(r) == CalculateOn(r, SampleBodies)

\* hello_async up to its await
HelloBegin(r) ==
    /\ pc[r] = "idle" /\ loop = 0
    /\ \/ /\ req'   = [req EXCEPT ![r] = Request("hello", "GET", Absent)]
          /\ pc'    = [pc EXCEPT ![r] = "sleeping"]
          /\ steps' = [steps EXCEPT ![r] = <<"await">>]
          /\ loop'  = AwaitSleep(r)
          /\ UNCHANGED <<data, response>>
       \/ Finish(r, Request("hello", "POST", JNull), Ran(NotAllowed({"GET"}), <<>>))

\* The sleep wrapped in a timeout that fires: the coroutine ends in a fault.
HelloResumeTimeout(r) ==
    /\ pc[r] = "sleeping" /\ req[r].path = "hello" /\ loop \in {0, r}
    /\ pc'       = [pc EXCEPT ![r] = "fault"]
    /\ response' = [response EXCEPT ![r] = Fault("TimeoutError")]
    /\ loop'     = 0
    /\ UNCHANGED <<req, data, steps>>

\* hello_async from its await to its return
HelloResume(r) ==
    /\ pc[r] = "sleeping" /\ req[r].path = "hello" /\ loop \in {0, r}
    /\ pc'       = [pc EXCEPT ![r] = "done"]
    /\ response' = [response EXCEPT ![r] = HelloResponse]
    /\ steps'    = [steps EXCEPT ![r] = Append(steps[r], "return")]
    /\ loop'     = 0
    /\ UNCHANGED <<req, data>>

\* process_data with the parse guarded: a malformed body is answered 400.
ProcessBeginHardened(r) ==
    /\ pc[r] = "idle" /\ loop = 0
    /\ \/ \E s \in RawBodies :
             LET q == Request("process", "POST", Raw(s))
                 d == JsonLoads(s)
             IN  IF d.exc # "none"
                 THEN Finish(r, q, Ran(ErrorResponse("Invalid JSON"), <<"loads", "except">>))
                 ELSE /\ req'   = [req EXCEPT ![r] = q]
                      /\ pc'    = [pc EXCEPT ![r] = "sleeping"]
                      /\ data'  = [data EXCEPT ![r] = d.val]
                      /\ steps' = [steps EXCEPT ![r] = <<"loads", "await">>]
                      /\ loop'  = AwaitSleep(r)
                      /\ UNCHANGED response
       \/ Finish(r, Request("process", "GET", Absent), Ran(NotAllowed({"POST"}), <<>>))

\* process_data up to its await: json.loads, then the sleep
ProcessBegin(r) ==
    /\ pc[r] = "idle" /\ loop = 0
    /\ \/ \E s \in RawBodies :
             LET q == Request("process", "POST", Raw(s))
                 d == JsonLoads(s)
             IN  IF d.exc # "none" THEN Finish(r, q, Ran(Fault(d.exc), <<"loads">>))
                 ELSE /\ req'   = [req EXCEPT ![r] = q]
                      /\ pc'    = [pc EXCEPT ![r] = "sleeping"]
                      /\ data'  = [data EXCEPT ![r] = d.val]
                      /\ steps' = [steps EXCEPT ![r] = <<"loads", "await">>]
                      /\ loop'  = AwaitSleep(r)
                      /\ UNCHANGED response
       \/ Finish(r, Request("process", "GET", Absent), Ran(NotAllowed({"POST"}), <<>>))

\* The value process_data echoes: its own local data.
Received(r) == data[r]

\* process_data from its await to its return
ProcessResume(r) ==
    /\ pc[r] = "sleeping" /\ req[r].path = "process" /\ loop \in {0, r}
    /\ pc'       = [pc EXCEPT ![r] = "done"]
    /\ response' = [response EXCEPT ![r] = ProcessResponse(Received(r))]
    /\ steps'    = [steps EXCEPT ![r] = Append(steps[r], "return")]
    /\ loop'     = 0
    /\ UNCHANGED <<req, data>>

\* The adapter hands the outcome back: the request and its locals are gone.
Retire(r) ==
    /\ pc[r] \in {"done", "fault"}
    /\ req'      = [req EXCEPT ![r] = NoRequest]
    /\ pc'       = [pc EXCEPT ![r] = "idle"]
    /\ data'     = [data EXCEPT ![r] = JNull]
    /\ response' = [response EXCEPT ![r] = NoResponse]
    /\ steps'    = [steps EXCEPT ![r] = <<>>]
    /\ UNCHANGED loop

Next ==
    \E r \in Req :
        \/ HealthCheck(r)
        \/ Calculate(r)
        \/ HelloBegin(r)
        \/ HelloResume(r)
        \/ ProcessBegin(r)
        \/ ProcessResume(r)
        \/ Retire(r)

Spec == Init /\ [][Next]_vars

\* A coroutine whose sleep has elapsed is resumed by the event loop.
Fairness == \A r \in Req : WF_vars(HelloResume(r)) /\ WF_vars(ProcessResume(r))

FairSpec == Spec /\ Fairness

\* calculate alone, one request at a time, over every body of Bodies.
CalculateAny == CalculateOn(1, Bodies)

CalcNext == CalculateAny \/ Retire(1)

SpecCalc == Init /\ [][CalcNext]_vars

\* ------------------------------------------------- properties of calculate
\* Slot r holds a POST to calculate that the view has finished with.
CalcServed(r) ==
    req[r].path = "calculate" /\ req[r].method = "POST" /\ pc[r] \in {"done", "fault"}

OpStrings == {JStr(o) : o \in OpNames}

\* float(v) returns.
Converts(v) == FloatOf(v).exc = "none"

\* res is the value of a op b, stated on the integers a and b.
Exact(o, a, b, res) ==
    CASE o = "add"      -> res = Float(a + b)
      [] o = "subtract" -> res = Float(a - b)
      [] o = "multiply" -> res = Float(a * b)
      [] o = "divide"   -> res.d > 0 /\ res.n * b = a * res.d

C2_AllErrorsCaught ==
    \A r \in Req :
        CalcServed(r)
        => /\ response[r].kind = "response"
           /\ response[r].status = HTTP_400_BAD_REQUEST
                  => DOMAIN response[r].body = {"error"}

\* A value that is given and that float() does not convert.
Unparseable(v) == v # Absent /\ ~Converts(v)

C4_UnparseableIsInvalidInput ==
    \A r \in Req :
        LET b == req[r].body
        IN  ( /\ CalcServed(r) /\ b.t = "dict"
              /\ Unparseable(b.num1) \/ Unparseable(b.num2) )
            => response[r] = ErrorResponse(InvalidInputMsg)

\* C5 as stated: an operation that is none of the four strings is answered
\* 400 with the invalid-operation message whatever num1 and num2 are.
C5_UnknownOperationAnyNumbers ==
    \A r \in Req :
        LET b == req[r].body
        IN  ( /\ CalcServed(r) /\ b.t = "dict"
              /\ b.operation # Absent /\ b.operation \notin OpStrings )
            => response[r] = ErrorResponse(InvalidOpMsg)

\* C5 amended: an operation that is none of the four strings is answered 400
\* with the invalid-operation message whenever num1 and num2 are each absent
\* or converted by float(); the numbers are converted before the operation
\* is looked at.
C5_UnknownOperationValidNumbers ==
    \A r \in Req :
        LET b == req[r].body
        IN  ( /\ CalcServed(r) /\ b.t = "dict"
              /\ b.operation # Absent /\ b.operation \notin OpStrings
              /\ ~Unparseable(b.num1) /\ ~Unparseable(b.num2) )
            => /\ response[r] = ErrorResponse(InvalidOpMsg)
               /\ steps[r] = <<"num1", "num2", "operation">>

\* "Add" is not "add".
C5_Witness ==
    \E r \in Req :
        /\ CalcServed(r)
        /\ req[r].body = DictBody(JInt(1), Absent, JStr("Add"))
        /\ response[r] = ErrorResponse(InvalidOpMsg)

\* C6: a request without num1 (num2) is answered as the same request with
\* num1 = 0 (num2 = 0), and a request without operation as the same request
\* with operation = "add".
C6_OmittedIsDefault ==
    \A r \in Req :
        LET b == req[r].body
        IN  (CalcServed(r) /\ b.t = "dict")
            => /\ b.num1 = Absent
                  => response[r] = CalculateView([b EXCEPT !.num1 = JInt(0)]).out
               /\ b.num2 = Absent
                  => response[r] = CalculateView([b EXCEPT !.num2 = JInt(0)]).out
               /\ b.operation = Absent
                  => response[r] = CalculateView([b EXCEPT !.operation = JStr("add")]).out

\* Nothing but num2 = 2 is sent: 0 + 2.
C6_Witness ==
    \E r \in Req :
        /\ CalcServed(r)
        /\ req[r].body = DictBody(Absent, JInt(2), Absent)
        /\ response[r] = CalculationResponse(Float(0), Float(2), JStr("add"), Float(2))

\* C9: a response of calculate is either a 200 with exactly num1, num2,
\* operation and result, given only when both numbers converted and the
\* operation was carried out, or a 400 with exactly the field error.
C9_ExclusiveShapes ==
    \A r \in Req :
        LET b == req[r].body
        IN  (CalcServed(r) /\ response[r].kind = "response")
            => \/ /\ response[r].status = HTTP_200_OK
                  /\ DOMAIN response[r].body = {"num1", "num2", "operation", "result"}
                  /\ b.t = "dict"
                  /\ ~Unparseable(b.num1) /\ ~Unparseable(b.num2)
                  /\ b.operation \in OpStrings \cup {Absent}
                  /\ ~( /\ b.operation = JStr("divide")
                        /\ FloatOf(Get(b, "num2", JInt(0))).val = Float(0) )
               \/ /\ response[r].status = HTTP_400_BAD_REQUEST
                  /\ DOMAIN response[r].body = {"error"}

\* An error response: "a" is no number.
C9_Witness ==
    \E r \in Req :
        /\ CalcServed(r)
        /\ req[r].body = DictBody(JStr(<<"a">>), JInt(1), JStr("add"))
        /\ response[r] = ErrorResponse(InvalidInputMsg)

\* ---------------------------------------------- properties of the service
\* Slot r holds a request of the given path, sent with the method it allows.
Serving(r, path, method) == req[r].path = path /\ req[r].method = method

Count(seq, x) == Cardinality({i \in 1..Len(seq) : seq[i] = x})

\* C7: process_data parses first, then suspends once, then answers 200 with
\* the parsed body as received; a body that is no JSON ends in the fault
\* raised by the parse, before any suspension, and is never answered by the
\* view, neither with 200 nor with an error response.
C7_ParseSuspendRespond ==
    \A r \in Req :
        Serving(r, "process", "POST")
        => LET d == JsonLoads(req[r].body.s)
           IN  /\ pc[r] \in {"sleeping", "done", "fault"}
               /\ pc[r] = "sleeping"
                  => /\ d.exc = "none" /\ data[r] = d.val
                     /\ steps[r] = <<"loads", "await">>
                     /\ response[r] = NoResponse
               /\ pc[r] = "done"
                  => /\ d.exc = "none"
                     /\ steps[r] = <<"loads", "await", "return">>
                     /\ response[r] = Response(HTTP_200_OK,
                                               [received |-> d.val, processed |-> TRUE])
               /\ d.exc # "none"
                  => /\ pc[r] = "fault"
                     /\ steps[r] = <<"loads">>
                     /\ response[r] = Fault("JSONDecodeError")

\* The body [] has been echoed.
C7_Witness ==
    \E r \in Req :
        /\ Serving(r, "process", "POST") /\ pc[r] = "done"
        /\ req[r].body = Raw(<<"[", "]">>)
        /\ response[r].body = [received |-> JArr(<<>>), processed |-> TRUE]
        /\ steps[r] = <<"loads", "await", "return">>

\* What the request in slot r is answered with, from the request alone (and,
\* for health_check, some reading of the clock).
Answers(q) ==
    CASE q.path = "calculate" /\ q.method = "POST" -> {CalculateView(q.body).out}
      [] q.path = "process" /\ q.method = "POST" ->
            LET d == JsonLoads(q.body.s)
            IN  {IF d.exc = "none" THEN ProcessResponse(d.val) ELSE Fault(d.exc)}
      [] q.path = "hello" /\ q.method = "GET" -> {HelloResponse}
      [] q.path = "health" /\ q.method = "GET" -> {HealthResponse(t) : t \in Clock}
      [] q.path \in {"calculate", "process"} -> {NotAllowed({"POST"})}
      [] OTHER -> {NotAllowed({"GET"})}

\* A suspended request leaves every step of every other slot enabled, and a
\* finished request holds an outcome its own request determines.
SlotsIndependent ==
    \A r \in Req :
        /\ pc[r] = "sleeping"
           => \A s \in Req \ {r} :
                 /\ pc[s] = "idle"
                    => /\ ENABLED HealthCheck(s) /\ ENABLED Calculate(s)
                       /\ ENABLED HelloBegin(s) /\ ENABLED ProcessBegin(s)
                 /\ pc[s] = "sleeping"
                    => ENABLED (HelloResume(s) \/ ProcessResume(s))
        /\ pc[r] \in {"done", "fault"} => response[r] \in Answers(req[r])
        /\ pc[r] \in {"idle", "sleeping"} => response[r] = NoResponse

\* A step writes the request, locals and outcome of one slot at most.
OneSlotWritten ==
    \E r \in Req : \A s \in Req \ {r} :
        /\ req'[s] = req[s] /\ pc'[s] = pc[s] /\ data'[s] = data[s]
        /\ response'[s] = response[s] /\ steps'[s] = steps[s]

\* C8: requests are independent under every interleaving: while a request is
\* suspended every other slot can still take every step open to it (a new
\* request of any of the four views, the resumption of its own sleep), a
\* finished request's outcome is decided by that request alone, and no step
\* writes the state of two requests.
C8_Independent == []SlotsIndependent /\ [][OneSlotWritten]_vars

\* A calculate request has been served while another request sleeps.
C8_Witness ==
    \E r, s \in Req :
        /\ r # s
        /\ pc[r] = "sleeping"
        /\ Serving(s, "calculate", "POST") /\ pc[s] = "done"

\* hello_async, once suspended, moves only to its return.
HelloNotCancelled ==
    \A r \in Req :
        (Serving(r, "hello", "GET") /\ pc[r] = "sleeping")
        => /\ pc'[r] \in {"sleeping", "done"}
           /\ req'[r] = req[r]
           /\ pc'[r] = "done" => response'[r] = HelloResponse

\* The suspension points each view has passed.
SuspensionCounts ==
    \A r \in Req :
        /\ Serving(r, "hello", "GET")
           => /\ pc[r] \in {"sleeping", "done"}
              /\ Count(steps[r], "await") = 1
              /\ pc[r] = "done"
                 => /\ response[r] = HelloResponse
                    /\ steps[r] = <<"await", "return">>
        /\ req[r].path \in {"health", "calculate"}
           => /\ pc[r] \in {"done", "fault"}
              /\ Count(steps[r], "await") = 0

\* C10: a GET to hello_async suspends at exactly one point and, resumed by a
\* fair scheduler, answers once with 200 and the fixed body; nothing cancels
\* or times out the suspension; health_check and calculate answer without
\* any suspension point.
C10_HelloSuspendsOnceThenResponds ==
    /\ []SuspensionCounts
    /\ [][HelloNotCancelled]_vars
    /\ \A r \in Req :
          (Serving(r, "hello", "GET") /\ pc[r] = "sleeping")
              ~> (Serving(r, "hello", "GET") /\ pc[r] = "done"
                     /\ response[r] = HelloResponse)

\* hello_async has answered after its one suspension.
C10_Witness ==
    \E r \in Req :
        /\ Serving(r, "hello", "GET") /\ pc[r] = "done"
        /\ steps[r] = <<"await", "return">>
        /\ response[r].status = HTTP_200_OK
        /\ response[r].body.async = TRUE

====
